---- MODULE Spec2Model ----
(***************************************************************************)
(* HopStackMCP (server.py): the tool catalog loaded once from two JSON      *)
(* files, the three meta-tools (list_available_tools, get_tool_schema,      *)
(* execute_ue_tool) and the plain HTTP endpoints.                           *)
(*                                                                         *)
(* Python strings that the code inspects (tool names, descriptions,        *)
(* category and search terms) are sequences of one-character strings, so   *)
(* that lower(), startswith(), `in` and split() are computed.  Optional    *)
(* values (None, a missing dict key, a missing file) are sequences of      *)
(* length 0 or 1: None == <<>>, Some(v) == <<v>>.                          *)
(***************************************************************************)
EXTENDS Integers, Sequences, FiniteSets, TLC

VARIABLES
    files,            \* the two JSON sources on disk: <<file1, file2>>, each None (missing) or Some(entries)
    _tools_cache,     \* module global _tools_cache: None or Some(list of tools)
    _tools_by_name,   \* module global _tools_by_name: None or Some(dict)
    reads,            \* number of times a JSON source has been opened and parsed
    pc,               \* per caller: position inside load_tools / get_tools_by_name
    local,            \* per caller: the local list `tools` being built by load_tools
    idx,              \* per caller: index into JSON_FILES of the next path to read
    observed,         \* per caller: None or Some(catalog the caller's call returned)
    call,             \* the handler invocation last started: its name and inputs
    ret,              \* what that invocation returned (or the fault it raised)
    inflight,         \* None or Some(mcp_request): the HTTP POST awaiting the backend
    posts,            \* POSTs sent to the backend by the invocation in `call`
    pg                \* the paging client: its request, next offset and pages so far

vars == <<files, _tools_cache, _tools_by_name, reads, pc, local, idx, observed,
          call, ret, inflight, posts, pg>>

--------------------------------------------------------------------------
(* Optional values and Python helpers                                      *)

None == <<>>

Some(v) == <<v>>

IsNone(o) == o = <<>>

Min(a, b) == IF a <= b THEN a ELSE b

Max(a, b) == IF a >= b THEN a ELSE b

\* str.lower() on one character (the alphabet of the model)
LowerChar(c) ==
    CASE c = "A" -> "a"
      [] c = "B" -> "b"
      [] OTHER -> c

\* str.lower()
Lower(s) == [i \in 1..Len(s) |-> LowerChar(s[i])]

\* str.startswith(prefix)
StartsWith(s, prefix) ==
    /\ Len(prefix) <= Len(s)
    /\ SubSeq(s, 1, Len(prefix)) = prefix

\* `sub in s` for strings: substring test
Contains(s, sub) ==
    \E i \in 0..(Len(s) - Len(sub)) : SubSeq(s, i + 1, i + Len(sub)) = sub

\* `c in s` for one character c
HasChar(s, c) == \E i \in 1..Len(s) : s[i] = c

\* s.split(c)[0]: the part of s before the first c (all of s when c is absent)
SplitFirst(s, c) ==
    IF HasChar(s, c)
    THEN LET i == CHOOSE j \in 1..Len(s) :
                      /\ s[j] = c
                      /\ \A k \in 1..(j - 1) : s[k] # c
         IN SubSeq(s, 1, i - 1)
    ELSE s

\* seq[start:stop] with Python's handling of negative and out-of-range indices
PySlice(s, start, stop) ==
    LET n == Len(s)
        norm(i) == IF i < 0 THEN Max(i + n, 0) ELSE Min(i, n)
        lo == norm(start)
        hi == norm(stop)
    IN IF lo < hi THEN SubSeq(s, lo + 1, hi) ELSE <<>>

\* ord(c): Unicode code point, which orders Python strings
Ord(c) ==
    CASE c = "." -> 46
      [] c = "A" -> 65
      [] c = "B" -> 66
      [] c = "_" -> 95
      [] c = "a" -> 97
      [] c = "b" -> 98
      [] c = "c" -> 99
      [] c = "e" -> 101
      [] c = "g" -> 103
      [] c = "l" -> 108
      [] c = "n" -> 110
      [] c = "r" -> 114

\* s < t for Python strings: lexicographic by code point, a proper prefix first
StrLess(s, t) ==
    \E i \in 1..(Min(Len(s), Len(t)) + 1) :
        /\ \A k \in 1..(i - 1) : s[k] = t[k]
        /\ \/ i = Len(s) + 1 /\ i <= Len(t)
           \/ i <= Len(s) /\ i <= Len(t) /\ Ord(s[i]) < Ord(t[i])

\* sorted(set_of_strings): insertion of the least remaining element
RECURSIVE Sorted(_)
Sorted(S) ==
    IF S = {} THEN <<>>
    ELSE LET m == CHOOSE x \in S : \A y \in S \ {x} : StrLess(x, y)
         IN <<m>> \o Sorted(S \ {m})

--------------------------------------------------------------------------
(* The JSON sources and the catalog                                        *)

\* one JSON object of a source file; any key may be missing
Entry(name, description, inputSchema) ==
    [name |-> name, description |-> description, inputSchema |-> inputSchema]

\* the entries json.load returns for a file holding the names `ns` (None: an
\* entry without a "name" key).  Entry k of file f carries the schema <<f, k>>
\* and the description `ds[k]`, so that every source definition is recognisable.
MkFile(f, ns, ds) ==
    [k \in 1..Len(ns) |-> Entry(ns[k], ds[k], Some(<<f, k>>))]

\* JSON_FILES
JSON_FILES == <<1, 2>>

\* path.exists()
PathExists(fs, path) == ~IsNone(fs[path])

\* `for entry in data`: the entries with a "name" key are appended, in file
\* order; the others are skipped
NamedEntries(data) == SelectSeq(data, LAMBDA entry : ~IsNone(entry.name))

\* one iteration of `for path in JSON_FILES` on the local list `tools`
ReadPath(fs, path, tools) ==
    IF ~PathExists(fs, path) THEN tools
    ELSE tools \o NamedEntries(fs[path][1])

\* 1 when the iteration opens and parses the file, 0 when it is missing
ReadCount(fs, path) == IF PathExists(fs, path) THEN 1 ELSE 0

\* the whole loop of load_tools
RECURSIVE ReadAll(_, _, _)
ReadAll(fs, paths, tools) ==
    IF paths = <<>> THEN tools
    ELSE ReadAll(fs, Tail(paths), ReadPath(fs, Head(paths), tools))

RECURSIVE ReadAllCount(_, _)
ReadAllCount(fs, paths) ==
    IF paths = <<>> THEN 0
    ELSE ReadCount(fs, Head(paths)) + ReadAllCount(fs, Tail(paths))

\* load_tools() run without interruption: [tools, cache, reads]
load_tools(cache, fs) ==
    IF ~IsNone(cache)
    THEN [tools |-> cache[1], cache |-> cache, reads |-> 0]
    ELSE LET tools == ReadAll(fs, JSON_FILES, <<>>)
         IN [tools |-> tools, cache |-> Some(tools),
             reads |-> ReadAllCount(fs, JSON_FILES)]

\* t["name"]
NameOf(t) == t.name[1]

\* the dict {t["name"]: t for t in tools}: keys in order of first insertion,
\* the value of a key the last tool bearing it
RECURSIVE DictPut(_, _, _)
DictPut(d, k, v) ==
    IF d = <<>> THEN << <<k, v>> >>
    ELSE IF Head(d)[1] = k THEN << <<k, v>> >> \o Tail(d)
         ELSE <<Head(d)>> \o DictPut(Tail(d), k, v)

RECURSIVE DictComp(_, _)
DictComp(tools, d) ==
    IF tools = <<>> THEN d
    ELSE DictComp(Tail(tools), DictPut(d, NameOf(Head(tools)), Head(tools)))

\* name in d
DictHas(d, k) == \E i \in 1..Len(d) : d[i][1] = k

\* d.get(k): None or Some(value)
DictGet(d, k) ==
    IF DictHas(d, k)
    THEN Some(d[CHOOSE i \in 1..Len(d) : d[i][1] = k][2])
    ELSE None

\* get_tools_by_name() run without interruption: [dict, byname, cache, reads]
get_tools_by_name(byname, cache, fs) ==
    IF ~IsNone(byname)
    THEN [dict |-> byname[1], byname |-> byname, cache |-> cache, reads |-> 0]
    ELSE LET l == load_tools(cache, fs)
             d == DictComp(l.tools, <<>>)
         IN [dict |-> d, byname |-> Some(d), cache |-> l.cache, reads |-> l.reads]

\* the first key of d, in iteration order, whose lower() equals lower(tool_name)
CaseInsensitiveKey(d, tool_name) ==
    IF \E i \in 1..Len(d) : Lower(d[i][1]) = Lower(tool_name)
    THEN Some(d[CHOOSE i \in 1..Len(d) :
                    /\ Lower(d[i][1]) = Lower(tool_name)
                    /\ \A j \in 1..(i - 1) : Lower(d[j][1]) # Lower(tool_name)][1])
    ELSE None

--------------------------------------------------------------------------
(* get_tool_categories                                                     *)

general == <<"g", "e", "n", "e", "r", "a", "l">>

\* CategoryOf with the underscore tested before the dot
CategoryOf_UnderscoreFirst(name) ==
    IF HasChar(name, "_") THEN SplitFirst(name, "_")
    ELSE IF HasChar(name, ".") THEN SplitFirst(name, ".")
         ELSE general

\* the if / elif / else of get_tool_categories for one name
CategoryOf(name) ==
    IF HasChar(name, ".") THEN SplitFirst(name, ".")
    ELSE IF HasChar(name, "_") THEN SplitFirst(name, "_")
         ELSE general

\* get_tool_categories() on the loaded tools
get_tool_categories(tools) ==
    Sorted({CategoryOf(NameOf(tools[i])) : i \in 1..Len(tools)})

--------------------------------------------------------------------------
(* Meta-tool 1: list_available_tools                                       *)

\* default of the parameter `limit`
DefaultLimit == 50

\* limit = min(limit, 200)
MaxLimit == 200

\* descriptions longer than this are truncated in the compact listing
DescMax == 100

\* characters of a truncated description kept before the "..."
DescKeep == 97

\* tool.get("description", "")
DescriptionOf(t) == IF IsNone(t.description) THEN <<>> ELSE t.description[1]

\* Python truthiness of an Optional[str]: neither None nor ""
Truthy(o) == ~IsNone(o) /\ o[1] # <<>>

\* the condition of the category list comprehension
CategoryMatch(t, category_lower) ==
    \/ StartsWith(Lower(NameOf(t)), category_lower \o <<".">>)
    \/ StartsWith(Lower(NameOf(t)), category_lower \o <<"_">>)
    \/ Lower(NameOf(t)) = category_lower

\* the condition of the search list comprehension
SearchMatch(t, search_lower) ==
    \/ Contains(Lower(NameOf(t)), search_lower)
    \/ Contains(Lower(DescriptionOf(t)), search_lower)

\* `filtered` after both optional filters
Filtered(tools, category, search) ==
    LET byCat == IF Truthy(category)
                 THEN SelectSeq(tools, LAMBDA t : CategoryMatch(t, Lower(category[1])))
                 ELSE tools
    IN IF Truthy(search)
       THEN SelectSeq(byCat, LAMBDA t : SearchMatch(t, Lower(search[1])))
       ELSE byCat

\* ClampLimit without the cap
ClampLimit_NoCap(limit) == limit

\* limit = min(limit, 200)
ClampLimit(limit) == Min(limit, MaxLimit)

\* paginated = filtered[offset : offset + limit]
Paginate(filtered, limit, offset) == PySlice(filtered, offset, offset + limit)

\* the compact {name, description} of one tool, description truncated
CompactTool(t) ==
    LET desc == DescriptionOf(t)
    IN [name |-> NameOf(t),
        description |-> IF Len(desc) > DescMax
                        THEN SubSeq(desc, 1, DescKeep) \o <<".", ".", ".">>
                        ELSE desc]

\* HasMore with <= for <
HasMore_Inclusive(offset, limit, total) == (offset + limit) <= total

\* "has_more": (offset + limit) < total
HasMore(offset, limit, total) == (offset + limit) < total

\* the dict list_available_tools returns on the loaded `tools`
ListResult(tools, category, search, limit0, offset) ==
    LET filtered == Filtered(tools, category, search)
        total == Len(filtered)
        limit == ClampLimit(limit0)
        paginated == Paginate(filtered, limit, offset)
        result_tools == [i \in 1..Len(paginated) |-> CompactTool(paginated[i])]
        result == [tools |-> result_tools,
                   total |-> total,
                   returned |-> Len(result_tools),
                   has_more |-> HasMore(offset, limit, total)]
    IN IF ~Truthy(category) /\ ~Truthy(search) /\ offset = 0
       THEN [tools |-> result.tools, total |-> result.total,
             returned |-> result.returned, has_more |-> result.has_more,
             categories |-> get_tool_categories(tools)]
       ELSE result

\* one run of the handler list_available_tools(category, search, limit, offset)
ListCall(category, search, limit, offset) ==
    LET l == load_tools(_tools_cache, files)
    IN /\ _tools_cache' = l.cache
       /\ reads' = reads + l.reads
       /\ call' = [op |-> "list_available_tools", category |-> category,
                   search |-> search, limit |-> limit, offset |-> offset]
       /\ ret' = Some(ListResult(l.tools, category, search, limit, offset))
       /\ UNCHANGED <<files, _tools_by_name, pc, local, idx, observed, inflight, posts>>

\* the handler called by a client that keeps no paging state
list_available_tools(category, search, limit, offset) ==
    /\ ListCall(category, search, limit, offset)
    /\ UNCHANGED pg

--------------------------------------------------------------------------
(* Meta-tool 2: get_tool_schema                                            *)

\* tool.get("inputSchema", {}); the empty schema {} is <<>>
InputSchemaOf(t) == IF IsNone(t.inputSchema) THEN <<>> ELSE t.inputSchema[1]

\* LookupTool without the case-insensitive scan
LookupTool_ExactOnly(d, tool_name) == DictGet(d, tool_name)

\* exact lookup, then the case-insensitive scan: None or Some(tool)
LookupTool(d, tool_name) ==
    LET exact == DictGet(d, tool_name)
    IN IF ~IsNone(exact) THEN exact
       ELSE LET k == CaseInsensitiveKey(d, tool_name)
            IN IF IsNone(k) THEN None ELSE DictGet(d, k[1])

\* the dict get_tool_schema returns
SchemaResult(d, tool_name) ==
    LET tool == LookupTool(d, tool_name)
    IN IF IsNone(tool)
       THEN [found |-> FALSE,
             error |-> <<"Tool '", tool_name, "' not found">>,
             suggestion |-> "Use list_available_tools to find available tools"]
       ELSE [found |-> TRUE,
             name |-> NameOf(tool[1]),
             description |-> DescriptionOf(tool[1]),
             inputSchema |-> InputSchemaOf(tool[1])]

\* the handler get_tool_schema(tool_name)
get_tool_schema(tool_name) ==
    LET g == get_tools_by_name(_tools_by_name, _tools_cache, files)
    IN /\ _tools_by_name' = g.byname
       /\ _tools_cache' = g.cache
       /\ reads' = reads + g.reads
       /\ call' = [op |-> "get_tool_schema", tool_name |-> tool_name]
       /\ ret' = Some(SchemaResult(g.dict, tool_name))
       /\ UNCHANGED <<files, pc, local, idx, observed, inflight, posts, pg>>

--------------------------------------------------------------------------
(* Plain HTTP endpoints                                                    *)

\* description[:100] of the compact /tools.json output
CompactDescMax == 100

\* the category comprehension of tools_json_endpoint
JsonCategoryMatch(t, category_lower) ==
    \/ StartsWith(Lower(NameOf(t)), category_lower \o <<".">>)
    \/ StartsWith(Lower(NameOf(t)), category_lower \o <<"_">>)

\* JsonTools with the slice tools[offset : limit]
JsonTools_LimitAsStop(tools, category, limit, offset) ==
    LET byCat == IF ~IsNone(category) /\ category[1] # <<>>
                 THEN SelectSeq(tools, LAMBDA t : JsonCategoryMatch(t, Lower(category[1])))
                 ELSE tools
    IN IF ~IsNone(limit) THEN PySlice(byCat, offset, limit[1])
       ELSE IF offset > 0 THEN PySlice(byCat, offset, Len(byCat))
            ELSE byCat

\* `tools` of tools_json_endpoint after filtering and pagination.  `limit` is
\* the query parameter: None when absent or empty, else Some(int(limit)).
JsonTools(tools, category, limit, offset) ==
    LET byCat == IF Truthy(category)
                 THEN SelectSeq(tools, LAMBDA t : JsonCategoryMatch(t, Lower(category[1])))
                 ELSE tools
    IN IF ~IsNone(limit) THEN PySlice(byCat, offset, offset + limit[1])
       ELSE IF offset > 0 THEN PySlice(byCat, offset, Len(byCat))
            ELSE byCat

\* the JSON body of GET /tools.json
JsonBody(tools, compact, names_only, category, limit, offset) ==
    LET ts == JsonTools(tools, category, limit, offset)
    IN IF names_only THEN [i \in 1..Len(ts) |-> NameOf(ts[i])]
       ELSE IF compact
            THEN [i \in 1..Len(ts) |->
                     [name |-> NameOf(ts[i]),
                      description |-> PySlice(DescriptionOf(ts[i]), 0, CompactDescMax)]]
            ELSE ts

\* the handler of GET /tools.json
tools_json_endpoint(compact, names_only, category, limit, offset) ==
    LET l == load_tools(_tools_cache, files)
    IN /\ _tools_cache' = l.cache
       /\ reads' = reads + l.reads
       /\ call' = [op |-> "tools_json_endpoint", compact |-> compact,
                   names_only |-> names_only, category |-> category,
                   limit |-> limit, offset |-> offset]
       /\ ret' = Some([status_code |-> 200,
                       body |-> JsonBody(l.tools, compact, names_only, category,
                                         limit, offset)])
       /\ UNCHANGED <<files, _tools_by_name, pc, local, idx, observed, inflight, posts, pg>>

\* the handler of GET /tool/{name}/schema
tool_schema_endpoint(tool_name) ==
    LET g == get_tools_by_name(_tools_by_name, _tools_cache, files)
        tool == LookupTool(g.dict, tool_name)
    IN /\ _tools_by_name' = g.byname
       /\ _tools_cache' = g.cache
       /\ reads' = reads + g.reads
       /\ call' = [op |-> "tool_schema_endpoint", tool_name |-> tool_name]
       /\ ret' = IF IsNone(tool)
                 THEN Some([status_code |-> 404,
                            body |-> [error |-> <<"Tool '", tool_name, "' not found">>]])
                 ELSE Some([status_code |-> 200, body |-> tool[1]])
       /\ UNCHANGED <<files, pc, local, idx, observed, inflight, posts, pg>>

\* the handler of GET /categories
categories_endpoint ==
    LET l == load_tools(_tools_cache, files)
    IN /\ _tools_cache' = l.cache
       /\ reads' = reads + l.reads
       /\ call' = [op |-> "categories_endpoint"]
       /\ ret' = Some([status_code |-> 200, body |-> get_tool_categories(l.tools)])
       /\ UNCHANGED <<files, _tools_by_name, pc, local, idx, observed, inflight, posts, pg>>

\* the handler of GET /health
health_endpoint ==
    LET l == load_tools(_tools_cache, files)
    IN /\ _tools_cache' = l.cache
       /\ reads' = reads + l.reads
       /\ call' = [op |-> "health_endpoint"]
       /\ ret' = Some([status_code |-> 200,
                       body |-> [status |-> "ok", tools |-> Len(l.tools),
                                 mode |-> "meta-tools", registered_mcp_tools |-> 3]])
       /\ UNCHANGED <<files, _tools_by_name, pc, local, idx, observed, inflight, posts, pg>>

--------------------------------------------------------------------------
(* Meta-tool 3: execute_ue_tool                                            *)

\* the argument strings of the model.  The last three stand for texts too long
\* to write out: 100000 '[' characters (not JSON: never closed), the same
\* followed by 100000 ']' (a JSON array nested 100000 deep), and a JSON
\* number of 5000 digits.
DeepOpen == "'[' * 100000"

DeepClosed == "'[' * 100000 + ']' * 100000"

BigInt == "'1' * 5000"

ParsedStrings == {"{}", "[1]", "null"}

MalformedStrings == {"{not valid json", " "}

\* json.loads(s) on CPython 3.11: the value, or the exception raised.
\* JSONDecodeError is raised by the scanner on a syntax error; the scanner
\* recurses once per nesting level and raises RecursionError past the
\* interpreter's limit, before it can reach the end of DeepOpen; int() refuses
\* more than 4300 digits with a plain ValueError (JSONDecodeError's base class).
json_loads(s) ==
    CASE s \in ParsedStrings -> [kind |-> "ok", value |-> s]
      [] s \in MalformedStrings -> [kind |-> "JSONDecodeError"]
      [] s = DeepOpen -> [kind |-> "RecursionError"]
      [] s = DeepClosed -> [kind |-> "RecursionError"]
      [] s = BigInt -> [kind |-> "ValueError"]

\* Python truthiness of Optional[str] arguments given as a plain string
ArgTruthy(arguments) == ~IsNone(arguments) /\ arguments[1] # ""

\* ResolveName forwarding the caller's spelling when only the case differs
ResolveName_KeepCaller(d, tool_name) ==
    IF DictHas(d, tool_name) THEN Some(tool_name)
    ELSE IF IsNone(CaseInsensitiveKey(d, tool_name)) THEN None
         ELSE Some(tool_name)

\* the validation of tool_name: None, or Some(the name the request will carry)
ResolveName(d, tool_name) ==
    IF DictHas(d, tool_name) THEN Some(tool_name)
    ELSE CaseInsensitiveKey(d, tool_name)

\* mcp_request
McpRequest(tool_name, args_dict) ==
    [jsonrpc |-> "2.0", id |-> 1, method |-> "tools/call",
     params |-> [name |-> tool_name, arguments |-> args_dict]]

\* lines 274-312: what execute_ue_tool does before it contacts the backend.
\* [done, ret] when it returns or raises there, [done, request] otherwise.
ExecPrepare(d, tool_name, arguments) ==
    LET resolved == ResolveName(d, tool_name)
        parsed == IF ArgTruthy(arguments) THEN json_loads(arguments[1])
                  ELSE [kind |-> "ok", value |-> "{}"]
    IN IF IsNone(resolved)
       THEN [done |-> TRUE,
             ret |-> [success |-> FALSE,
                      error |-> <<"Tool '", tool_name, "' not found">>,
                      suggestion |-> "Use list_available_tools to find available tools"]]
       ELSE IF parsed.kind = "JSONDecodeError"
            THEN [done |-> TRUE,
                  ret |-> [success |-> FALSE,
                           error |-> <<"Invalid JSON in arguments: ", "JSONDecodeError">>,
                           arguments_received |-> arguments[1]]]
            ELSE IF parsed.kind # "ok"
                 THEN [done |-> TRUE, ret |-> [raised |-> parsed.kind]]
                 ELSE [done |-> FALSE,
                       tool_name |-> resolved[1],
                       request |-> McpRequest(resolved[1], parsed.value)]

\* number of client.post calls the prepared invocation makes
PostsSent(prep) == IF prep.done THEN 0 ELSE 1

\* the handler execute_ue_tool up to its `await client.post(...)`
execute_ue_tool_call(tool_name, arguments) ==
    LET g == get_tools_by_name(_tools_by_name, _tools_cache, files)
        prep == ExecPrepare(g.dict, tool_name, arguments)
        c == [op |-> "execute_ue_tool", tool_name |-> tool_name,
              arguments |-> arguments]
    IN /\ IsNone(inflight)
       /\ _tools_by_name' = g.byname
       /\ _tools_cache' = g.cache
       /\ reads' = reads + g.reads
       /\ call' = c
       /\ posts' = PostsSent(prep)
       /\ IF prep.done
          THEN ret' = Some(prep.ret) /\ inflight' = None
          ELSE /\ ret' = None
               /\ inflight' = Some([call |-> c, tool_name |-> prep.tool_name,
                                    request |-> prep.request])
       /\ UNCHANGED <<files, pc, local, idx, observed, pg>>

\* the result when the fault e is caught by `except Exception as e`
Unexpected(tool_name, e) ==
    [success |-> FALSE, error |-> <<"Unexpected error: ", e>>, tool |-> tool_name]

\* ObjectResult with the "result" member tested before the "error" member
ObjectResult_ResultFirst(tool_name, result) ==
    IF ~IsNone(result.result)
    THEN [success |-> TRUE, tool |-> tool_name, result |-> result.result[1]]
    ELSE IF ~IsNone(result.error)
         THEN IF result.error[1].type # "object"
              THEN Unexpected(tool_name, "AttributeError")
              ELSE [success |-> FALSE,
                    error |-> IF IsNone(result.error[1].message)
                              THEN <<"Unknown error">>
                              ELSE <<result.error[1].message[1]>>,
                    code |-> result.error[1].code]
         ELSE [success |-> TRUE, tool |-> tool_name, result |-> result]

\* lines 334-352 on a body that is a JSON object: `result` has the optional
\* members error and result.  An "error" member that is not an object has no
\* .get: the AttributeError is caught by `except Exception`.
ObjectResult(tool_name, result) ==
    IF ~IsNone(result.error)
    THEN IF result.error[1].type # "object"
         THEN Unexpected(tool_name, "AttributeError")
         ELSE [success |-> FALSE,
               error |-> IF IsNone(result.error[1].message)
                         THEN <<"Unknown error">>
                         ELSE <<result.error[1].message[1]>>,
               code |-> result.error[1].code]
    ELSE IF ~IsNone(result.result)
         THEN [success |-> TRUE, tool |-> tool_name, result |-> result.result[1]]
         ELSE [success |-> TRUE, tool |-> tool_name, result |-> result]

\* lines 315-373: the result for one outcome of the POST.  An outcome is an
\* exception of client.post or a response [status_code, text, body]; body is
\* what response.json() gives: "invalid" (it raises), a JSON object with
\* optional "error" and "result" members, or another JSON value ("number":
\* `"error" in 5` raises TypeError; "array": a list without the element
\* "error", which passes both membership tests).
ExecResult(tool_name, outcome) ==
    CASE outcome.kind = "ConnectError" ->
             [success |-> FALSE,
              error |-> <<"Cannot connect to Unreal Engine MCP server">>,
              url |-> "UE_PLUGIN_MCP_URL/mcp",
              hint |-> "Ensure Unreal Editor is running with Agent Integration Kit plugin loaded"]
      [] outcome.kind = "TimeoutException" ->
             [success |-> FALSE,
              error |-> <<"Request to Unreal Engine timed out (60s)">>,
              tool |-> tool_name,
              hint |-> "The tool may still be executing. Check Unreal Editor."]
      [] outcome.kind = "Exception" -> Unexpected(tool_name, "Exception")
      [] outcome.kind = "response" ->
             IF outcome.status_code # 200
             THEN [success |-> FALSE,
                   error |-> <<"UE Plugin returned HTTP ", outcome.status_code>>,
                   details |-> IF outcome.text # "" THEN Some(outcome.text) ELSE None,
                   hint |-> "Ensure Unreal Editor is running with Agent Integration Kit"]
             ELSE LET result == outcome.body
                  IN CASE result.json = "invalid" -> Unexpected(tool_name, "JSONDecodeError")
                       [] result.json = "number" -> Unexpected(tool_name, "TypeError")
                       [] result.json = "array" ->
                              [success |-> TRUE, tool |-> tool_name, result |-> result]
                       [] result.json = "object" -> ObjectResult(tool_name, result)

\* the rest of the handler, run when the POST completes with `outcome`
execute_ue_tool_response(outcome) ==
    /\ ~IsNone(inflight)
    /\ call' = [op |-> "execute_ue_tool",
                tool_name |-> inflight[1].call.tool_name,
                arguments |-> inflight[1].call.arguments,
                outcome |-> outcome]
    /\ ret' = Some(ExecResult(inflight[1].tool_name, outcome))
    /\ inflight' = None
    /\ UNCHANGED <<files, _tools_cache, _tools_by_name, reads, pc, local, idx,
                   observed, posts, pg>>

--------------------------------------------------------------------------
(* load_tools and get_tools_by_name statement by statement, for callers     *)
(* that run them concurrently                                               *)

\* number of concurrent callers
NumCallers == 2

Callers == 1..NumCallers

Idle == [fn |-> "idle", at |-> "idle"]

\* EnterLoad without `if _tools_cache is not None: return _tools_cache`
EnterLoad_NoMemo(p, fn) ==
    /\ local' = [local EXCEPT ![p] = <<>>]
    /\ idx' = [idx EXCEPT ![p] = 1]
    /\ pc' = [pc EXCEPT ![p] = [fn |-> fn, at |-> "for"]]
    /\ UNCHANGED observed

\* a caller enters load_tools (fn: the function it called it from) and runs
\* `if _tools_cache is not None: return _tools_cache`, else `tools = []`
EnterLoad(p, fn) ==
    IF ~IsNone(_tools_cache)
    THEN /\ observed' = [observed EXCEPT ![p] = _tools_cache]
         /\ pc' = [pc EXCEPT ![p] = IF fn = "load_tools" THEN Idle
                                    ELSE [fn |-> fn, at |-> "byname"]]
         /\ UNCHANGED <<local, idx>>
    ELSE /\ local' = [local EXCEPT ![p] = <<>>]
         /\ idx' = [idx EXCEPT ![p] = 1]
         /\ pc' = [pc EXCEPT ![p] = [fn |-> fn, at |-> "for"]]
         /\ UNCHANGED observed

\* caller p calls load_tools()
CallLoadTools(p) ==
    /\ pc[p] = Idle
    /\ EnterLoad(p, "load_tools")
    /\ UNCHANGED <<files, _tools_cache, _tools_by_name, reads, call, ret,
                   inflight, posts, pg>>

\* caller p calls get_tools_by_name(): returns the cached dict, or goes on to
\* `tools = load_tools()`
CallGetToolsByName(p) ==
    /\ pc[p] = Idle
    /\ IF ~IsNone(_tools_by_name)
       THEN UNCHANGED <<pc, local, idx, observed>>
       ELSE EnterLoad(p, "get_tools_by_name")
    /\ UNCHANGED <<files, _tools_cache, _tools_by_name, reads, call, ret,
                   inflight, posts, pg>>

\* one iteration of `for path in JSON_FILES`, or the exit of the loop
ReadStep(p) ==
    /\ pc[p].at = "for"
    /\ IF idx[p] > Len(JSON_FILES)
       THEN /\ pc' = [pc EXCEPT ![p].at = "assign"]
            /\ UNCHANGED <<local, idx, reads>>
       ELSE /\ local' = [local EXCEPT ![p] = ReadPath(files, JSON_FILES[idx[p]], local[p])]
            /\ reads' = reads + ReadCount(files, JSON_FILES[idx[p]])
            /\ idx' = [idx EXCEPT ![p] = idx[p] + 1]
            /\ UNCHANGED pc
    /\ UNCHANGED <<files, _tools_cache, _tools_by_name, observed, call, ret,
                   inflight, posts, pg>>

\* _tools_cache = tools
AssignCache(p) ==
    /\ pc[p].at = "assign"
    /\ _tools_cache' = Some(local[p])
    /\ pc' = [pc EXCEPT ![p].at = "return"]
    /\ UNCHANGED <<files, _tools_by_name, reads, local, idx, observed, call, ret,
                   inflight, posts, pg>>

\* return tools
ReturnTools(p) ==
    /\ pc[p].at = "return"
    /\ observed' = [observed EXCEPT ![p] = Some(local[p])]
    /\ pc' = [pc EXCEPT ![p] = IF pc[p].fn = "load_tools" THEN Idle
                               ELSE [fn |-> pc[p].fn, at |-> "byname"]]
    /\ UNCHANGED <<files, _tools_cache, _tools_by_name, reads, local, idx, call,
                   ret, inflight, posts, pg>>

\* _tools_by_name = {t["name"]: t for t in tools}; return _tools_by_name
AssignByName(p) ==
    /\ pc[p].at = "byname"
    /\ _tools_by_name' = Some(DictComp(observed[p][1], <<>>))
    /\ pc' = [pc EXCEPT ![p] = Idle]
    /\ UNCHANGED <<files, _tools_cache, reads, local, idx, observed, call, ret,
                   inflight, posts, pg>>

--------------------------------------------------------------------------
(* A client paging through list_available_tools: it starts at offset 0 and, *)
(* while has_more is true, calls again with the offset advanced by the      *)
(* effective limit min(limit, 200), appending each page to `pages`.         *)

\* the client's first call
PageStart(category, search, limit) ==
    /\ pg.state = "init"
    /\ ListCall(category, search, limit, 0)
    /\ pg' = [state |-> IF ret'[1].has_more THEN "paging" ELSE "done",
              category |-> category, search |-> search, limit |-> limit,
              offset |-> 0, ncalls |-> 1, pages |-> ret'[1].tools]

\* the client's next call
PageNext ==
    /\ pg.state = "paging"
    /\ LET offset == pg.offset + Min(pg.limit, MaxLimit)
       IN /\ ListCall(pg.category, pg.search, pg.limit, offset)
          /\ pg' = [pg EXCEPT !.state = IF ret'[1].has_more THEN "paging" ELSE "done",
                              !.offset = offset,
                              !.ncalls = pg.ncalls + 1,
                              !.pages = pg.pages \o ret'[1].tools]

--------------------------------------------------------------------------
(* Inputs                                                                  *)

\* tool names
n_a == <<"a">>
n_b == <<"b">>
n_c == <<"c">>
n_B == <<"B">>
n_ab == <<"a", "b">>
n_a_dot_b == <<"a", ".", "b">>
n_A_dot_b == <<"A", ".", "b">>
n_a_dot_B == <<"a", ".", "B">>
n_A_dot_B == <<"A", ".", "B">>
n_a_us_b == <<"a", "_", "b">>
n_A_us_b == <<"A", "_", "b">>
n_b_dot_a == <<"b", ".", "a">>
n_a_us_dot_b == <<"a", "_", ".", "b">>
n_dot_us == <<".", "_">>
n_us_a == <<"_", "a">>
n_B_us == <<"B", "_">>
n_general_dot_a == general \o <<".", "a">>

\* largest number of entries of the two files together, in the small catalogs
MaxEntries == 2

\* how far the large catalogs, the offsets and the limits step past a boundary
Extra == 2

\* a description longer than DescMax
LongDesc == [i \in 1..(DescMax + 1) |-> "b"]

\* the files holding the optional names `ns` in source f, descriptions absent
NamesFile(f, ns) == MkFile(f, ns, [k \in 1..Len(ns) |-> None])

\* every pair of sources with at most MaxEntries entries together, each entry
\* nameless or named from `pool`, each source possibly missing
FilePairs(pool) ==
    LET slots == {None} \cup {Some(n) : n \in pool}
        contents(f, k) == {Some(NamesFile(f, ns)) : ns \in [1..k -> slots]}
        source(f, k) == IF k = 0 THEN {None} \cup contents(f, 0) ELSE contents(f, k)
    IN UNION {{<<f1, f2>> : f1 \in source(1, k1), f2 \in source(2, k2)} :
                  <<k1, k2>> \in {kk \in (0..MaxEntries) \X (0..MaxEntries) :
                                      kk[1] + kk[2] <= MaxEntries}}

\* a source of n entries repeating `pattern` (pairs <<name, description>>)
Gen(f, pattern, n) ==
    LET at(k) == pattern[((k - 1) % Len(pattern)) + 1]
    IN MkFile(f, [k \in 1..n |-> at(k)[1]], [k \in 1..n |-> at(k)[2]])

\* the state with sources `fs` on disk: right after the module is imported
\* (the caches empty), or warm, after an earlier load_tools() has completed
InitState(fs, warm) ==
    /\ files = fs
    /\ _tools_cache = IF warm THEN load_tools(None, fs).cache ELSE None
    /\ _tools_by_name = None
    /\ reads = IF warm THEN load_tools(None, fs).reads ELSE 0
    /\ pc = [p \in Callers |-> Idle]
    /\ local = [p \in Callers |-> <<>>]
    /\ idx = [p \in Callers |-> 1]
    /\ observed = [p \in Callers |-> None]
    /\ call = [op |-> "none"]
    /\ ret = None
    /\ inflight = None
    /\ posts = 0
    /\ pg = [state |-> "init"]

\* the state right after the module is imported
InitWith(fs) == InitState(fs, FALSE)

--------------------------------------------------------------------------
(* Schema lookup: get_tool_schema and GET /tool/{name}/schema              *)

SchemaNames == {n_a_dot_b, n_A_dot_b, n_A_dot_B, n_b}

SchemaQueries == SchemaNames \cup {n_a_dot_B, n_B, n_c}

InitSchema == \E fs \in FilePairs(SchemaNames) : InitWith(fs)

NextSchema ==
    \/ \E n \in SchemaQueries : get_tool_schema(n)
    \/ \E n \in SchemaQueries : tool_schema_endpoint(n)

SpecSchema == InitSchema /\ [][NextSchema]_vars

--------------------------------------------------------------------------
(* Categories: get_tool_categories through its two callers                 *)

CatNames == {n_a_dot_b, n_a_us_b, n_a_us_dot_b, n_dot_us, n_us_a, n_ab,
             n_A_dot_b, n_B_us, n_general_dot_a}

InitCat == \E fs \in FilePairs(CatNames) : InitWith(fs)

NextCat ==
    \/ categories_endpoint
    \/ list_available_tools(None, None, DefaultLimit, 0)
    \/ health_endpoint

SpecCat == InitCat /\ [][NextCat]_vars

--------------------------------------------------------------------------
(* Execution proxy: execute_ue_tool and the backend's answers              *)

ExecNames == {n_a_dot_b, n_A_dot_b}

ExecQueries == {n_a_dot_b, n_A_dot_B, n_c}

ExecArguments ==
    {None, Some("")} \cup
    {Some(a) : a \in ParsedStrings \cup MalformedStrings \cup {DeepOpen, DeepClosed, BigInt}}

\* the "error" members a JSON object body may carry
ErrorMembers ==
    {[type |-> "null"]} \cup
    {[type |-> "object", message |-> m, code |-> c] :
         m \in {None, Some("bad state")}, c \in {None, Some(-32000)}}

\* what response.json() may give
Bodies ==
    {[json |-> "invalid"], [json |-> "number"], [json |-> "array"]} \cup
    {[json |-> "object", error |-> e, result |-> r] :
         e \in {None} \cup {Some(m) : m \in ErrorMembers},
         r \in {None, Some([json |-> "string", value |-> "done"])}}

\* what the POST may end in
Outcomes ==
    {[kind |-> "ConnectError"], [kind |-> "TimeoutException"], [kind |-> "Exception"]} \cup
    {[kind |-> "response", status_code |-> 500, text |-> t, body |-> [json |-> "invalid"]] :
         t \in {"", "Internal Server Error"}} \cup
    {[kind |-> "response", status_code |-> 200, text |-> "body", body |-> b] : b \in Bodies}

InitExec == \E fs \in FilePairs(ExecNames) : InitWith(fs)

NextExec ==
    \/ \E n \in ExecQueries, a \in ExecArguments : execute_ue_tool_call(n, a)
    \/ \E o \in Outcomes : execute_ue_tool_response(o)

SpecExec == InitExec /\ [][NextExec]_vars

--------------------------------------------------------------------------
(* Listing: list_available_tools and GET /tools.json on catalogs around    *)
(* the default limit and the cap                                           *)

\* the repeating patterns of the large catalogs: <<name, description>> pairs
ListPatterns ==
    {<< <<Some(n_a), None>> >>,
     << <<Some(n_a_dot_b), Some(<<"A">>)>>, <<Some(n_b_dot_a), None>> >>,
     << <<Some(n_A_us_b), Some(<<>>)>>, <<Some(n_b), Some(n_ab)>>, <<None, None>> >>}

ListSizes == {0, Extra, DefaultLimit + Extra, MaxLimit + Extra}

ListFiles ==
    {<<Some(Gen(1, p, n)), None>> : p \in ListPatterns, n \in ListSizes} \cup
    {<<Some(Gen(1, << <<Some(n_a_us_b), Some(LongDesc)>> >>, Extra)), Some(<<>>)>>}

ListCategories == {None, Some(<<>>), Some(n_a), Some(<<"A">>), Some(n_b)}

ListSearches == {None, Some(n_a), Some(n_B)}

ListLimits == {-1, 0, 1, DefaultLimit, MaxLimit, MaxLimit + 1}

ListOffsets == {-Extra, 0, Extra, DefaultLimit, MaxLimit}

JsonLimits == {None} \cup {Some(l) : l \in ListLimits}

InitList == \E fs \in ListFiles, warm \in BOOLEAN : InitState(fs, warm)

\* each behaviour is one request, on a cold or a warm process
FirstRequest == call.op = "none"

ListRequest ==
    /\ FirstRequest
    /\ \E c \in ListCategories, q \in ListSearches, l \in ListLimits, o \in ListOffsets :
           list_available_tools(c, q, l, o)

JsonRequest ==
    /\ FirstRequest
    /\ \E compact \in BOOLEAN, names_only \in BOOLEAN, c \in ListCategories,
          l \in JsonLimits, o \in ListOffsets :
           tools_json_endpoint(compact, names_only, c, l, o)

NextList == ListRequest \/ JsonRequest

SpecList == InitList /\ [][NextList]_vars

--------------------------------------------------------------------------
(* Paging: a client that follows has_more through list_available_tools     *)

PageLimits == {1, Extra, DefaultLimit, MaxLimit, MaxLimit + 1}

InitPage == \E fs \in ListFiles : InitWith(fs)

NextPage ==
    \/ \E c \in ListCategories, q \in ListSearches, l \in PageLimits : PageStart(c, q, l)
    \/ PageNext

SpecPage == InitPage /\ [][NextPage]_vars

--------------------------------------------------------------------------
(* Loading: concurrent first calls of load_tools and get_tools_by_name,     *)
(* and every handler, on small sources                                      *)

\* both sources missing; one source with a nameless entry; two sources with
\* nameless entries and a name in both; only the second source; an empty first
\* source
LoadFiles ==
    {<<None, None>>,
     <<Some(NamesFile(1, <<Some(n_a_dot_b), None>>)), None>>,
     <<Some(NamesFile(1, <<Some(n_b)>>)), Some(NamesFile(2, <<None, Some(n_b)>>))>>,
     <<None, Some(NamesFile(2, <<Some(n_b), Some(n_a_dot_b)>>))>>,
     <<Some(<<>>), Some(NamesFile(2, <<Some(n_A_dot_b)>>))>>}

InitLoad == \E fs \in LoadFiles : InitWith(fs)

NextLoad ==
    \/ \E p \in Callers : CallLoadTools(p)
    \/ \E p \in Callers : CallGetToolsByName(p)
    \/ \E p \in Callers : ReadStep(p)
    \/ \E p \in Callers : AssignCache(p)
    \/ \E p \in Callers : ReturnTools(p)
    \/ \E p \in Callers : AssignByName(p)
    \/ list_available_tools(None, None, DefaultLimit, 0)
    \/ get_tool_schema(n_b)
    \/ execute_ue_tool_call(n_b, None)
    \/ execute_ue_tool_response([kind |-> "ConnectError"])
    \/ tools_json_endpoint(FALSE, TRUE, None, None, 0)
    \/ tool_schema_endpoint(n_b)
    \/ categories_endpoint
    \/ health_endpoint

SpecLoad == InitLoad /\ [][NextLoad]_vars

--------------------------------------------------------------------------
(* What the claims speak of                                                *)

\* the source definitions: the named entries of the sources that exist, in
\* file order, first file first
SourceDefinitions ==
    LET named(f) == IF IsNone(files[f]) THEN <<>>
                    ELSE SelectSeq(files[f][1], LAMBDA e : ~IsNone(e.name))
    IN named(1) \o named(2)

\* n equals, ignoring case, the name of source definition e
SameNameIgnoringCase(e, n) == Lower(e.name[1]) = Lower(n)

\* C4: get_tool_schema(n) returns found=true exactly when n equals, ignoring
\* case, the name of some catalog tool; then the name it returns matches n
\* ignoring case, is n itself when the catalog holds n exactly, and its
\* inputSchema is that of a source definition bearing the returned name.
\* Otherwise it returns found=false; it never raises.
C4_SchemaLookup ==
    (call.op = "get_tool_schema") =>
        LET n == call.tool_name
            r == ret[1]
            defs == SourceDefinitions
        IN /\ "found" \in DOMAIN r
           /\ r.found \in BOOLEAN
           /\ r.found <=> \E i \in 1..Len(defs) : SameNameIgnoringCase(defs[i], n)
           /\ r.found =>
                /\ Lower(r.name) = Lower(n)
                /\ (\E i \in 1..Len(defs) : defs[i].name[1] = n) => r.name = n
                /\ \E i \in 1..Len(defs) :
                       /\ defs[i].name[1] = r.name
                       /\ defs[i].inputSchema = Some(r.inputSchema)

\* C4 witness: a name found only through the case-insensitive scan, in a
\* catalog holding two names that differ only in letter case
C4_Witness ==
    /\ call.op = "get_tool_schema"
    /\ ret[1].found
    /\ ret[1].name # call.tool_name
    /\ \E i, j \in 1..Len(SourceDefinitions) :
           /\ SourceDefinitions[i].name # SourceDefinitions[j].name
           /\ SameNameIgnoringCase(SourceDefinitions[i], SourceDefinitions[j].name[1])

\* c is the category of `name` by the three rules, in their order
IsCategoryOf(c, name) ==
    \/ \E i \in 1..Len(name) :
           /\ name[i] = "."
           /\ \A k \in 1..(i - 1) : name[k] # "."
           /\ c = SubSeq(name, 1, i - 1)
    \/ /\ \A k \in 1..Len(name) : name[k] # "."
       /\ \E i \in 1..Len(name) :
              /\ name[i] = "_"
              /\ \A k \in 1..(i - 1) : name[k] # "_"
              /\ c = SubSeq(name, 1, i - 1)
    \/ /\ \A k \in 1..Len(name) : name[k] \notin {".", "_"}
       /\ c = general

\* every string that could be the category of `name`
CategoryCandidates(name) == {SubSeq(name, 1, k) : k \in 0..Len(name)} \cup {general}

\* the category list the last call returned, when it returned one
ReturnedCategories ==
    IF call.op = "categories_endpoint" THEN Some(ret[1].body)
    ELSE IF call.op = "list_available_tools" /\ "categories" \in DOMAIN ret[1]
         THEN Some(ret[1].categories)
         ELSE None

\* C9: every loaded name has exactly one category by the three-rule
\* precedence, and get_tool_categories returns exactly the set of these
\* categories over the catalog, each once, in ascending order.
C9_Categories ==
    ~IsNone(ReturnedCategories) =>
        LET cats == ReturnedCategories[1]
            defs == SourceDefinitions
            names == {defs[i].name[1] : i \in 1..Len(defs)}
        IN /\ \A n \in names :
                  Cardinality({c \in CategoryCandidates(n) : IsCategoryOf(c, n)}) = 1
           /\ {cats[k] : k \in 1..Len(cats)} =
                  UNION {{c \in CategoryCandidates(n) : IsCategoryOf(c, n)} : n \in names}
           /\ \A k, l \in 1..Len(cats) : k < l => StrLess(cats[k], cats[l])

\* C9 witness: the categories of a catalog holding a name with both
\* separators (the underscore first) and a name with none
C9_Witness ==
    /\ call.op = "categories_endpoint"
    /\ Len(ret[1].body) = 2
    /\ \E i, j \in 1..Len(SourceDefinitions) :
           /\ SourceDefinitions[i].name[1] = n_a_us_dot_b
           /\ SourceDefinitions[j].name[1] = n_ab

--------------------------------------------------------------------------
(* execute_ue_tool                                                         *)

\* the argument text is JSON by the grammar of RFC 8259
IsValidJSON(a) == a \in ParsedStrings \cup {DeepClosed, BigInt}

\* the tool name is in the catalog, exactly or ignoring case
Resolvable(n) ==
    \E i \in 1..Len(SourceDefinitions) : SameNameIgnoringCase(SourceDefinitions[i], n)

\* the last invocation of execute_ue_tool has returned or raised
ExecReturned == call.op = "execute_ue_tool" /\ ~IsNone(ret)

\* C1: an invocation sends at most one POST; it sends none when the tool name
\* cannot be resolved or the non-empty arguments string is not valid JSON, and
\* it then returns success=false, echoing the raw string as
\* arguments_received in the malformed-JSON case.
C1_NoPostWhenRejected ==
    (call.op = "execute_ue_tool") =>
        LET n == call.tool_name
            a == call.arguments
            malformed == ArgTruthy(a) /\ ~IsValidJSON(a[1])
        IN /\ posts <= 1
           /\ (~Resolvable(n) \/ malformed) =>
                  /\ posts = 0
                  /\ IsNone(inflight)
                  /\ ExecReturned
                  /\ "success" \in DOMAIN ret[1]
                  /\ ret[1].success = FALSE
           /\ (Resolvable(n) /\ malformed) =>
                  /\ "arguments_received" \in DOMAIN ret[1]
                  /\ ret[1].arguments_received = a[1]

\* C2: whatever the tool name, the arguments string and the backend outcome,
\* the invocation returns a result with a boolean success field, no fault
\* escapes, and success is true only for an HTTP 200 answer whose body has no
\* error field.
C2_AlwaysStructured ==
    ExecReturned =>
        /\ "success" \in DOMAIN ret[1]
        /\ ret[1].success \in BOOLEAN
        /\ ret[1].success =>
               /\ "outcome" \in DOMAIN call
               /\ call.outcome.kind = "response"
               /\ call.outcome.status_code = 200
               /\ call.outcome.body.json = "object" => IsNone(call.outcome.body.error)

\* C3: on an HTTP 200 answer whose body has an error field the result is
\* success=false, with error the error object's message and code its code,
\* whether or not the body also has a result field; a body with a result
\* field and no error field gives success=true, tool the resolved name (a
\* catalog name equal to the requested one ignoring case, the requested one
\* itself when the catalog holds it) and result that field.
C3_ErrorPrecedence ==
    (/\ ExecReturned
     /\ "outcome" \in DOMAIN call
     /\ call.outcome.kind = "response"
     /\ call.outcome.status_code = 200
     /\ call.outcome.body.json = "object") =>
        LET b == call.outcome.body
            r == ret[1]
            names == {SourceDefinitions[i].name[1] : i \in 1..Len(SourceDefinitions)}
        IN /\ ~IsNone(b.error) =>
                  /\ r.success = FALSE
                  /\ b.error[1].type = "object" =>
                         /\ "code" \in DOMAIN r
                         /\ r.code = b.error[1].code
                         /\ ~IsNone(b.error[1].message) => r.error = b.error[1].message
           /\ (IsNone(b.error) /\ ~IsNone(b.result)) =>
                  /\ r.success = TRUE
                  /\ r.tool \in names
                  /\ Lower(r.tool) = Lower(call.tool_name)
                  /\ call.tool_name \in names => r.tool = call.tool_name
                  /\ r.result = b.result[1]

\* C3 witness: a body with both an error object and a result field was
\* answered with the error's message and code
C3_Witness ==
    /\ ExecReturned
    /\ "outcome" \in DOMAIN call
    /\ call.outcome.kind = "response"
    /\ call.outcome.status_code = 200
    /\ call.outcome.body.json = "object"
    /\ ~IsNone(call.outcome.body.error)
    /\ ~IsNone(call.outcome.body.result)
    /\ ret[1] = [success |-> FALSE, error |-> <<"bad state">>, code |-> Some(-32000)]

--------------------------------------------------------------------------
(* list_available_tools and GET /tools.json                                *)

\* source definition e passes the category filter X (absent or empty: none)
PassesCategory(e, X) ==
    (~IsNone(X) /\ X[1] # <<>>) =>
        LET nm == Lower(e.name[1])
            c == Lower(X[1])
        IN \/ StartsWith(nm, c \o <<".">>)
           \/ StartsWith(nm, c \o <<"_">>)
           \/ nm = c

\* source definition e passes the search filter q (absent or empty: none)
PassesSearch(e, q) ==
    (~IsNone(q) /\ q[1] # <<>>) =>
        \/ Contains(Lower(e.name[1]), Lower(q[1]))
        \/ ~IsNone(e.description) /\ Contains(Lower(e.description[1]), Lower(q[1]))

\* the number of source definitions passing both filters
PassingCount(X, q) ==
    Cardinality({i \in 1..Len(SourceDefinitions) :
                     /\ PassesCategory(SourceDefinitions[i], X)
                     /\ PassesSearch(SourceDefinitions[i], q)})

\* C5: for offset >= 0 and limit >= 1, total is the number of tools passing
\* the filters, returned is min(max(total - offset, 0), min(limit, 200)) and
\* has_more is (offset + min(limit, 200) < total); so with no filters and the
\* default pagination returned = min(total, 50) and has_more = (50 < total).
C5_PageArithmetic ==
    (call.op = "list_available_tools" /\ call.offset >= 0 /\ call.limit >= 1) =>
        LET r == ret[1]
            total == PassingCount(call.category, call.search)
        IN /\ r.total = total
           /\ r.returned = Min(Max(total - call.offset, 0), Min(call.limit, 200))
           /\ r.returned = Len(r.tools)
           /\ r.has_more = (call.offset + Min(call.limit, 200) < total)
           /\ (IsNone(call.category) /\ IsNone(call.search) /\ call.limit = 50
               /\ call.offset = 0) =>
                  /\ r.returned = Min(total, 50)
                  /\ r.has_more = (50 < total)

\* C5 witness: the default call on a catalog of more than 50 tools
C5_Witness ==
    /\ call = [op |-> "list_available_tools", category |-> None, search |-> None,
               limit |-> 50, offset |-> 0]
    /\ ret[1].total > 50
    /\ ret[1].returned = 50
    /\ ret[1].has_more

\* C6: whatever limit the caller requests, zero and negative values
\* included, the response holds at most 200 tools.
C6_AtMost200 ==
    (call.op = "list_available_tools") =>
        /\ ret[1].returned <= 200
        /\ Len(ret[1].tools) <= 200

\* the tool names of a /tools.json body, in whichever of its three formats
JsonNames(c, body) ==
    [i \in 1..Len(body) |->
        IF c.names_only THEN body[i]
        ELSE IF c.compact THEN body[i].name ELSE body[i].name[1]]

\* the tool names list_available_tools(category, limit, offset) returns on the
\* loaded catalog
ListNames(category, limit, offset) ==
    LET ts == ListResult(_tools_cache[1], category, None, limit, offset).tools
    IN [i \in 1..Len(ts) |-> ts[i].name]

\* C7 as claimed: /tools.json?category=X&limit=N&offset=M returns the same
\* sequence of tool names as list_available_tools(category=X, limit=N,
\* offset=M).
C7_SameAsList ==
    (call.op = "tools_json_endpoint" /\ ~IsNone(call.limit)) =>
        JsonNames(call, ret[1].body) = ListNames(call.category, call.limit[1], call.offset)

\* C7 amended: the two sequences of names are equal whenever N <= 200 and no
\* tool name equals X ignoring case; /tools.json does not cap the limit and
\* its category filter has no equality rule.
C7_SameAsListWithinCap ==
    (/\ call.op = "tools_json_endpoint"
     /\ ~IsNone(call.limit)
     /\ call.limit[1] <= 200
     /\ IsNone(call.category)
        \/ \A i \in 1..Len(SourceDefinitions) :
               ~SameNameIgnoringCase(SourceDefinitions[i], call.category[1])) =>
        JsonNames(call, ret[1].body) = ListNames(call.category, call.limit[1], call.offset)

\* C7 witness: a category-filtered, limited page of /tools.json that is not
\* empty and stops short of the filtered catalog
C7_Witness ==
    /\ call.op = "tools_json_endpoint"
    /\ ~IsNone(call.category) /\ call.category[1] # <<>>
    /\ ~IsNone(call.limit) /\ call.limit[1] = 50
    /\ call.offset > 0
    /\ Len(ret[1].body) = 50
    /\ \A i \in 1..Len(SourceDefinitions) :
           ~SameNameIgnoringCase(SourceDefinitions[i], call.category[1])

--------------------------------------------------------------------------
(* The memoized catalog, and paging through it                             *)

\* C8: every caller of load_tools observes the named entries of the sources
\* in file order, first file first, and so does the cache once set, under
\* any interleaving of concurrent first calls; once the cache is set no step
\* changes it, no call that starts afterwards enters the read loop, and a
\* source is read only by a call that started while the cache was empty.
C8_LoadedOnce ==
    /\ [](\A p \in Callers : ~IsNone(observed[p]) => observed[p][1] = SourceDefinitions)
    /\ [](~IsNone(_tools_cache) => _tools_cache[1] = SourceDefinitions)
    /\ [](call.op = "health_endpoint" => ret[1].body.tools = Len(SourceDefinitions))
    /\ [][/\ ~IsNone(_tools_cache) => _tools_cache' = _tools_cache
          /\ \A p \in Callers :
                 (pc[p].at # "for" /\ pc'[p].at = "for") => IsNone(_tools_cache)
          /\ reads' # reads =>
                 \/ IsNone(_tools_cache)
                 \/ \E p \in Callers : pc[p].at = "for" /\ idx'[p] # idx[p]]_vars

\* C8 witness: two callers both performed the load of two existing sources
\* holding several named entries, and both observed the catalog now cached
C8_Witness ==
    /\ reads = 4
    /\ Len(SourceDefinitions) = 2
    /\ ~IsNone(_tools_cache)
    /\ ~IsNone(observed[1]) /\ ~IsNone(observed[2])
    /\ pc[1] = Idle /\ pc[2] = Idle

\* the compact entries of the source definitions passing the filters, in
\* catalog order
ExpectedPages(X, q) ==
    LET passing == SelectSeq(SourceDefinitions,
                             LAMBDA e : PassesCategory(e, X) /\ PassesSearch(e, q))
    IN [i \in 1..Len(passing) |-> CompactTool(passing[i])]

\* C10: for a fixed catalog, fixed filters and a fixed limit >= 1, the client
\* that starts at offset 0 and advances by min(limit, 200) while has_more is
\* true stops after finitely many calls (it never makes a call beyond the
\* ceiling of total / min(limit, 200), or beyond the first when total is 0),
\* and what it has received when it stops is exactly the filtered sequence in
\* catalog order.
C10_PagingComplete ==
    (pg.state # "init") =>
        LET total == PassingCount(pg.category, pg.search)
            step == Min(pg.limit, 200)
        IN /\ (pg.ncalls - 1) * step < Max(total, 1)
           /\ pg.state = "done" => pg.pages = ExpectedPages(pg.category, pg.search)

\* C10 witness: a client that needed several calls with a limit above the
\* cap has stopped
C10_Witness ==
    /\ pg.state = "done"
    /\ pg.limit > MaxLimit
    /\ pg.ncalls > 1
    /\ Len(pg.pages) > MaxLimit


\* the names of the catalog, as spelled in the sources
CatalogNames == {SourceDefinitions[i].name[1] : i \in 1..Len(SourceDefinitions)}

\* C11: whenever execute_ue_tool contacts the backend, params.name of the
\* request is a catalog name exactly as spelled there: the caller's name when
\* the catalog holds it, otherwise the catalog name equal to it ignoring
\* case, never the caller's spelling; a tool field in the result is a
\* catalog name with the same property.
C11_CatalogSpelling ==
    /\ ~IsNone(inflight) =>
           LET sent == inflight[1].request.params.name
               asked == inflight[1].call.tool_name
           IN /\ posts = 1
              /\ sent \in CatalogNames
              /\ Lower(sent) = Lower(asked)
              /\ asked \in CatalogNames => sent = asked
              /\ asked \notin CatalogNames => sent # asked
              /\ inflight[1].tool_name = sent
    /\ (ExecReturned /\ "tool" \in DOMAIN ret[1]) =>
           /\ ret[1].tool \in CatalogNames
           /\ Lower(ret[1].tool) = Lower(call.tool_name)
           /\ call.tool_name \in CatalogNames => ret[1].tool = call.tool_name

\* C11 witness: a request is in flight for a name the catalog spells
\* differently, carrying the catalog's spelling
C11_Witness ==
    /\ ~IsNone(inflight)
    /\ inflight[1].call.tool_name = n_A_dot_B
    /\ inflight[1].call.tool_name \notin CatalogNames
    /\ inflight[1].request.params.name \in CatalogNames
    /\ posts = 1

====
